---- MODULE Spec2Model ----
(***************************************************************************)
(* Model of the model-lifecycle and generation-session manager of the      *)
(* Stable Diffusion Gradio apps: StableDiffusionGenerator (app.py) and     *)
(* MinifiedStableDiffusionGenerator (minified_app.py), together with the   *)
(* two interface functions that the UI event handlers call.                *)
(*                                                                         *)
(* load_model / load_checkpoint and generate_image are modelled statement  *)
(* by statement with a program counter each (lpc, gpc).  Under Spec the    *)
(* two handlers never overlap: a call starts only when no call is running. *)
(* The diffusers / torch engine is opaque: each engine step either         *)
(* succeeds or raises, chosen nondeterministically.                        *)
(***************************************************************************)
EXTENDS Integers, FiniteSets, Sequences, TLC

(* ---------------------------- bounds ----------------------------------- *)

\* total number of load / generate calls in a run
MaxCalls == 3

\* a call that starts while the other handler is running is among the first
\* MaxOverlapCalls calls of a run
MaxOverlapCalls == 2

(* ---------------------------- values ----------------------------------- *)

\* self.pipeline is None
NoneRef == 0
\* the attribute self.pipeline does not exist (after `del self.pipeline`)
NoAttr == -1
\* str(None), also the value of a dropdown with no selection
NoneName == "None"

ModelNames == {NoneName, "A", "B"}
ModelTypes == {"SD1.5", "SDXL"}

\* request fields offered to generate_image_interface; guidance in half units
\* (the slider step is 0.5), so 15 is 7.5 and 50 is 25.0
\* <<steps, guidance, width, height>>: the defaults, the out-of-range values
\* steps = 500 and width = 100, and values off every bound or alignment
SizesIn == {<<25, 15, 512, 512>>, <<500, 15, 100, 512>>, <<5, 50, 2048, 1000>>}

\* Seeds are Python integers that reach 2**32, beyond the integers of the
\* model checker: a seed is written as hi * LimbBase + lo with lo in
\* 0..LimbBase-1 (floor division, so -1 is <<-1, LimbBase - 1>>).
LimbBase == 65536
Wide(hi, lo) == [hi |-> hi, lo |-> lo]
WideInt(n) == Wide(n \div LimbBase, n % LimbBase)
WideLess(a, b) == a.hi < b.hi \/ (a.hi = b.hi /\ a.lo < b.lo)
WideLeq(a, b) == a = b \/ WideLess(a, b)
WideMinusOne(a) ==
  IF a.lo = 0 THEN Wide(a.hi - 1, LimbBase - 1) ELSE Wide(a.hi, a.lo - 1)

SeedIn == {WideInt(-1), WideInt(42)}
NegPromptIn == {"", "blurry"}
PromptIn == {"a cat"}

\* the arguments of torch.randint(0, 2**32 - 1, (1,))
RandintLow == WideInt(0)
RandintHigh == WideMinusOne(Wide(LimbBase, 0))

\* integers around the ends of the range, among which a draw is taken
SeedCandidates ==
  {WideInt(-1), WideInt(0), Wide(LimbBase - 1, LimbBase - 2),
   Wide(LimbBase - 1, LimbBase - 1)}

\* Randint with the upper end included
Randint_Inclusive(low, high) ==
  {w \in SeedCandidates : WideLeq(low, w) /\ WideLeq(w, high)}

\* torch.randint(low, high): an integer in [low, high)
Randint(low, high) ==
  {w \in SeedCandidates : WideLeq(low, w) /\ WideLess(w, high)}

\* values torch.randint(0, 2**32 - 1, (1,)) is sampled at
RandomDraws == Randint(RandintLow, RandintHigh)

Requests ==
  { [prompt |-> p, negative_prompt |-> n, steps |-> z[1], guidance |-> z[2],
     width |-> z[3], height |-> z[4], seed |-> s] :
      p \in PromptIn, n \in NegPromptIn, z \in SizesIn, s \in SeedIn }

NoRequest ==
  [prompt |-> "", negative_prompt |-> "", steps |-> 0, guidance |-> 0,
   width |-> 0, height |-> 0, seed |-> WideInt(0)]

(* ---------------------------- exceptions ------------------------------- *)

EngineError(step) == [type |-> "EngineError", at |-> step]
AttributeError == [type |-> "AttributeError", at |-> "pipeline"]
TypeError(step) == [type |-> "TypeError", at |-> step]
NoException == [type |-> "none", at |-> "none"]

(* ---------------------------- messages --------------------------------- *)

\* An f-string is modelled by its fixed text and the values interpolated in it.
Msg(text, err, seed, model) ==
  [text |-> text, err |-> err, seed |-> seed, model |-> model]

NoMsg == Msg("", {}, {}, {})

NotFoundMsg(v, name) ==
  Msg(IF v = "app" THEN "Model not found at" ELSE "Checkpoint not found at",
      {}, {}, {name})

LoadedMsg(v, name) == Msg("Successfully loaded", {}, {}, {name})

LoadErrorMsg(v, e) ==
  Msg(IF v = "app" THEN "Error loading model" ELSE "Error loading checkpoint",
      {e}, {}, {})

NoModelMsg(v) ==
  Msg(IF v = "app" THEN "Please load a model first"
                   ELSE "Please load a checkpoint first", {}, {}, {})

\* GeneratedMsg with an info string that leaves the seed out
GeneratedMsg_NoSeed(v, seed, current) ==
  IF v = "app" THEN Msg("Generated", {}, {}, {})
               ELSE Msg("Generated / Checkpoint", {}, {}, {current})

GeneratedMsg(v, seed, current) ==
  IF v = "app" THEN Msg("Generated with seed", {}, {seed}, {})
               ELSE Msg("Generated with seed / Checkpoint", {}, {seed}, {current})

GenErrorMsg(v, e) == Msg("Error generating image", {e}, {}, {})

(* ---------------------------- results ---------------------------------- *)

\* what a call gave back to its caller: a (value, message) pair, or an
\* exception that left the method; value is {} for None
Returned(value, msg) ==
  [status |-> "returned", value |-> value, msg |-> msg, exc |-> NoException]
Raised(e) == [status |-> "raised", value |-> {}, msg |-> NoMsg, exc |-> e]
NoResult == [status |-> "none", value |-> {}, msg |-> NoMsg, exc |-> NoException]

(* ---------------------------- pipelines -------------------------------- *)

NativeScheduler == [solver |-> "native", karras |-> FALSE]

\* DPMSolverMultistepScheduler.from_config(config, use_karras_sigmas=True)
SamplerConfig(native) == [solver |-> "DPMSolverMultistep", karras |-> TRUE]

\* the pipeline class chosen by load_model; load_checkpoint has one class
PipelineClass(v, model_type) ==
  IF v = "app" /\ model_type = "SDXL" THEN "StableDiffusionXLPipeline"
                                     ELSE "StableDiffusionPipeline"

\* a pipeline object as from_pretrained / from_single_file returns it
NewPipeline(v, name, model_type) ==
  [name |-> name, cls |-> PipelineClass(v, model_type),
   scheduler |-> NativeScheduler, attention_slicing |-> FALSE,
   vae_slicing |-> FALSE, xformers |-> FALSE, device |-> "unplaced"]

FullyInitialized(p, dev) ==
  /\ p.scheduler = SamplerConfig(NativeScheduler)
  /\ p.attention_slicing
  /\ p.vae_slicing
  /\ p.device = dev

VARIABLES
  variant,        \* which of the two apps runs: "app" or "minified"
  device,         \* self.device
  pipeline,       \* self.pipeline: NoneRef, NoAttr or a handle in DOMAIN heap
  current_model,  \* self.current_model / self.current_checkpoint
  heap,           \* the live pipeline objects, by handle
  cached,         \* released handles whose device memory is still cached
  nextHandle,     \* next fresh handle
  lpc,            \* position in load_model / load_checkpoint
  lName,          \* model_name / checkpoint_filename
  lType,          \* model_type
  lExists,        \* what model_full_path.exists() gives in this call
  lTmp,           \* the constructed pipeline before it is stored
  lPre,           \* the session as the running load call found it
  lTrace,         \* the statements the running / last load call completed
  loadResult,     \* what the last load call gave back
  gpc,            \* position in generate_image
  gReq,           \* the arguments of generate_image
  gSeed,          \* the local seed
  gStream,        \* the local generator (torch.Generator)
  gImage,         \* result.images[0]
  gPre,           \* the session as the generate call found it
  gPrev,          \* outcome of the generate call before this one
  gStreams,       \* random streams the running / last generate constructed
  gDone,          \* the last generate call since the last load call that
                  \* returned an image
  genResult,      \* what the last generate call gave back
  lastCall,       \* the arguments of the engine call of the last generate
  loadCalls,      \* number of load calls made
  calls,          \* number of calls made
  nextStream      \* number of random streams constructed

sessionVars == <<pipeline, current_model, heap, cached, nextHandle>>
loadVars == <<lpc, lName, lType, lExists, lTmp, lPre, loadResult, lTrace>>
genVars ==
  <<gpc, gReq, gSeed, gStream, gImage, gPre, gPrev, genResult, gStreams>>
logVars == <<lastCall, nextStream, gDone>>
vars == <<variant, device, sessionVars, loadVars, genVars, logVars,
          loadCalls, calls>>

Snapshot == [pipeline |-> pipeline, current_model |-> current_model, heap |-> heap]
NoSnapshot == [pipeline |-> NoneRef, current_model |-> NoneName, heap |-> <<>>]

NoStream == [id |-> 0, seed |-> WideInt(0)]
NoImage == [by |-> NoneRef, model |-> NoneName, seed |-> WideInt(0)]
NoCall ==
  [handle |-> NoneRef, config |-> NewPipeline("app", NoneName, "SD1.5"),
   prompt |-> "", negative_prompt |-> {}, num_inference_steps |-> 0,
   guidance_scale |-> 0, width |-> 0, height |-> 0, generator |-> NoStream]
NoPrev == [failed |-> FALSE, handle |-> NoneRef]
NoDone ==
  [valid |-> FALSE, req |-> NoRequest, handle |-> NoneRef, seed |-> {},
   stream |-> 0]

IsHandle(ref) == ref \in DOMAIN heap

\* dropping a reference to a pipeline object: the object dies and, on an
\* accelerator, its device memory stays in the allocator's cache
Release(h, hp) == [x \in (DOMAIN hp) \ {h} |-> hp[x]]
CacheAfterRelease(h) ==
  IF IsHandle(h) /\ heap[h].device = "cuda" THEN cached \cup {h} ELSE cached

Init ==
  /\ variant \in {"app", "minified"}
  /\ device \in {"cuda", "cpu"}
  /\ pipeline = NoneRef
  /\ current_model = NoneName
  /\ heap = <<>>
  /\ cached = {}
  /\ nextHandle = 1
  /\ lpc = "idle" /\ lName = NoneName /\ lType = "SD1.5" /\ lExists = FALSE
  /\ lTmp = NoneRef /\ lPre = NoSnapshot /\ loadResult = NoResult
  /\ lTrace = <<>>
  /\ gpc = "idle" /\ gReq = NoRequest /\ gSeed = WideInt(0) /\ gStream = NoStream
  /\ gImage = NoImage /\ gPre = NoSnapshot
  /\ gPrev = NoPrev /\ genResult = NoResult
  /\ lastCall = NoCall /\ nextStream = 0
  /\ gStreams = 0 /\ gDone = NoDone
  /\ loadCalls = 0 /\ calls = 0

(* ------------------- load_model / load_checkpoint ---------------------- *)

\* except Exception as e: return None, f"Error loading ...: {str(e)}"
LoadExcept(e) ==
  /\ loadResult' = Returned({}, LoadErrorMsg(variant, e))
  /\ lpc' = "idle"
  /\ UNCHANGED lTrace

\* the statement at lpc has completed
Traced == lTrace' = Append(lTrace, lpc)

\* the last generate call that returned an image: its request, the handle
\* it used, the seed its info string named and the stream it passed
Remembered ==
  IF genResult.status = "returned" /\ genResult.value # {}
    THEN [valid |-> TRUE, req |-> gReq, handle |-> lastCall.handle,
          seed |-> genResult.msg.seed, stream |-> lastCall.generator.id]
    ELSE gDone

\* what is remembered of the generate calls made so far is dropped
ForgetGenerate ==
  /\ gReq' = NoRequest /\ gSeed' = WideInt(0) /\ gStream' = NoStream /\ gImage' = NoImage
  /\ gPre' = NoSnapshot /\ gPrev' = NoPrev /\ genResult' = NoResult
  /\ lastCall' = NoCall
  /\ gStreams' = 0
  /\ gDone' = NoDone
  /\ UNCHANGED gpc

\* load_model_interface / load_checkpoint_interface call the method; the
\* minified method takes no model type
LoadStart(name, model_type, ex) ==
  /\ lpc = "idle" /\ gpc = "idle"
  /\ calls < MaxCalls
  /\ variant = "minified" => model_type = "SD1.5"
  /\ lName' = name /\ lType' = model_type /\ lExists' = ex
  /\ lPre' = Snapshot
  /\ lTmp' = NoneRef
  /\ lTrace' = <<>>
  /\ lpc' = "path"
  /\ loadResult' = NoResult
  /\ ForgetGenerate
  /\ loadCalls' = loadCalls + 1
  /\ calls' = calls + 1
  /\ UNCHANGED <<variant, device, sessionVars, nextStream>>

\* model_full_path = self.model_path / model_name
LoadPath ==
  /\ lpc = "path"
  /\ IF lName = NoneName
       THEN LoadExcept(TypeError("path"))
       ELSE lpc' = "exists" /\ UNCHANGED loadResult /\ Traced
  /\ UNCHANGED <<variant, device, sessionVars, genVars, logVars, loadCalls, calls>>
  /\ UNCHANGED <<lName, lType, lExists, lTmp, lPre>>

\* LoadExists with the release done before the existence check
LoadExists_ReleaseFirst ==
  /\ lpc = "exists"
  /\ Traced
  /\ IF lExists
       THEN lpc' = "check" /\ UNCHANGED <<loadResult, pipeline, heap>>
       ELSE /\ loadResult' = Returned({}, NotFoundMsg(variant, lName))
            /\ pipeline' = NoneRef
            /\ heap' = <<>>
            /\ lpc' = "idle"
  /\ UNCHANGED <<variant, device, current_model, cached, nextHandle>>
  /\ UNCHANGED <<genVars, logVars, loadCalls, calls>>
  /\ UNCHANGED <<lName, lType, lExists, lTmp, lPre>>

\* if not model_full_path.exists(): return None, f"Model not found at ..."
LoadExists ==
  /\ lpc = "exists"
  /\ Traced
  /\ IF lExists
       THEN lpc' = "check" /\ UNCHANGED loadResult
       ELSE /\ loadResult' = Returned({}, NotFoundMsg(variant, lName))
            /\ lpc' = "idle"
  /\ UNCHANGED <<variant, device, sessionVars, genVars, logVars, loadCalls, calls>>
  /\ UNCHANGED <<lName, lType, lExists, lTmp, lPre>>

\* if self.pipeline is not None:
LoadCheck ==
  /\ lpc = "check"
  /\ IF pipeline = NoAttr
       THEN LoadExcept(AttributeError)
       ELSE /\ lpc' = IF pipeline = NoneRef THEN "construct" ELSE "del"
            /\ UNCHANGED loadResult
            /\ Traced
  /\ UNCHANGED <<variant, device, sessionVars, genVars, logVars, loadCalls, calls>>
  /\ UNCHANGED <<lName, lType, lExists, lTmp, lPre>>

\* LoadDel without the del: the old pipeline stays referenced
LoadDel_Skip ==
  /\ lpc = "del"
  /\ lpc' = "flush"
  /\ Traced
  /\ UNCHANGED <<variant, device, sessionVars, genVars, logVars>>
  /\ UNCHANGED <<lName, lType, lExists, lTmp, lPre, loadResult, loadCalls, calls>>

\* del self.pipeline
LoadDel ==
  /\ lpc = "del"
  /\ IF pipeline = NoAttr
       THEN LoadExcept(AttributeError) /\ UNCHANGED <<pipeline, heap, cached>>
       ELSE /\ pipeline' = NoAttr
            /\ heap' = Release(pipeline, heap)
            /\ cached' = CacheAfterRelease(pipeline)
            /\ lpc' = "flush"
            /\ UNCHANGED loadResult
            /\ Traced
  /\ UNCHANGED <<variant, device, current_model, nextHandle, genVars, logVars>>
  /\ UNCHANGED <<lName, lType, lExists, lTmp, lPre, loadCalls, calls>>

\* torch.cuda.empty_cache()
LoadFlush ==
  /\ lpc = "flush"
  /\ cached' = {}
  /\ lpc' = "construct"
  /\ Traced
  /\ UNCHANGED <<variant, device, pipeline, current_model, heap, nextHandle>>
  /\ UNCHANGED <<genVars, logVars, loadCalls, calls>>
  /\ UNCHANGED <<lName, lType, lExists, lTmp, lPre, loadResult>>

\* StableDiffusion[XL]Pipeline.from_pretrained(...) / from_single_file(...):
\* the right-hand side of the assignment to self.pipeline
LoadConstruct ==
  /\ lpc = "construct"
  /\ \/ /\ heap' = heap @@ (nextHandle :> NewPipeline(variant, lName, lType))
        /\ lTmp' = nextHandle
        /\ nextHandle' = nextHandle + 1
        /\ lpc' = "assign"
        /\ UNCHANGED loadResult
        /\ Traced
     \/ /\ LoadExcept(EngineError("construct"))
        /\ UNCHANGED <<heap, lTmp, nextHandle>>
  /\ UNCHANGED <<variant, device, pipeline, current_model, cached>>
  /\ UNCHANGED <<genVars, logVars, loadCalls, calls>>
  /\ UNCHANGED <<lName, lType, lExists, lPre>>

\* self.pipeline = <the constructed pipeline>; an object the attribute still
\* referred to loses its last reference
LoadAssign ==
  /\ lpc = "assign"
  /\ pipeline' = lTmp
  /\ heap' = IF IsHandle(pipeline) THEN Release(pipeline, heap) ELSE heap
  /\ cached' = CacheAfterRelease(pipeline)
  /\ lTmp' = NoneRef
  /\ lpc' = "scheduler"
  /\ Traced
  /\ UNCHANGED <<variant, device, current_model, nextHandle>>
  /\ UNCHANGED <<genVars, logVars, loadCalls, calls>>
  /\ UNCHANGED <<lName, lType, lExists, lPre, loadResult>>

\* one engine step on self.pipeline: it changes the pipeline object (to
\* `changed`) and goes on, or raises
LoadEngineStep(at, next, changed) ==
  /\ lpc = at
  /\ IF ~IsHandle(pipeline)
       THEN /\ LoadExcept(IF pipeline = NoAttr THEN AttributeError
                                               ELSE TypeError(at))
            /\ UNCHANGED heap
       ELSE \/ /\ heap' = [heap EXCEPT ![pipeline] = changed]
               /\ lpc' = next
               /\ UNCHANGED loadResult
               /\ Traced
            \/ /\ LoadExcept(EngineError(at))
               /\ UNCHANGED heap
  /\ UNCHANGED <<variant, device, pipeline, current_model, cached, nextHandle>>
  /\ UNCHANGED <<genVars, logVars, loadCalls, calls>>
  /\ UNCHANGED <<lName, lType, lExists, lTmp, lPre>>

WithScheduler(p) == [p EXCEPT !.scheduler = SamplerConfig(p.scheduler)]
WithAttentionSlicing(p) == [p EXCEPT !.attention_slicing = TRUE]
WithVaeSlicing(p) == [p EXCEPT !.vae_slicing = TRUE]
WithXformers(p) == [p EXCEPT !.xformers = TRUE]
\* pipeline.to(device) returns the same object, moved
ToDevice(p) == [p EXCEPT !.device = device]

\* self.pipeline.scheduler = DPMSolverMultistepScheduler.from_config(...)
LoadScheduler ==
  LoadEngineStep("scheduler", "attention", WithScheduler(heap[pipeline]))

\* self.pipeline.enable_attention_slicing()
LoadAttentionSlicing ==
  LoadEngineStep("attention", "vae", WithAttentionSlicing(heap[pipeline]))

\* self.pipeline.enable_vae_slicing(); only load_checkpoint goes on to xformers
AfterVaeSlicing == IF variant = "minified" THEN "xformers" ELSE "to"

LoadVaeSlicing ==
  LoadEngineStep("vae", AfterVaeSlicing, WithVaeSlicing(heap[pipeline]))

\* LoadXformers with a failure of the backend failing the load
LoadXformers_Fatal ==
  /\ lpc = "xformers"
  /\ \/ /\ IsHandle(pipeline)
        /\ heap' = [heap EXCEPT ![pipeline] = WithXformers(@)]
        /\ lpc' = "to"
        /\ Traced
        /\ UNCHANGED loadResult
     \/ /\ LoadExcept(EngineError("xformers"))
        /\ UNCHANGED heap
  /\ UNCHANGED <<variant, device, pipeline, current_model, cached, nextHandle>>
  /\ UNCHANGED <<genVars, logVars, loadCalls, calls>>
  /\ UNCHANGED <<lName, lType, lExists, lTmp, lPre>>

\* try: self.pipeline.enable_xformers_memory_efficient_attention()
\* except: print(...)          (minified_app.py only; a failure is swallowed)
LoadXformers ==
  /\ lpc = "xformers"
  /\ \/ /\ IsHandle(pipeline)
        /\ heap' = [heap EXCEPT ![pipeline] = WithXformers(@)]
     \/ UNCHANGED heap
  /\ lpc' = "to"
  /\ Traced
  /\ UNCHANGED <<variant, device, pipeline, current_model, cached, nextHandle>>
  /\ UNCHANGED <<genVars, logVars, loadCalls, calls>>
  /\ UNCHANGED <<lName, lType, lExists, lTmp, lPre, loadResult>>

\* self.pipeline = self.pipeline.to(self.device)
LoadTo == LoadEngineStep("to", "current", ToDevice(heap[pipeline]))

\* self.current_model = model_name
LoadSetCurrent ==
  /\ lpc = "current"
  /\ current_model' = lName
  /\ lpc' = "return"
  /\ Traced
  /\ UNCHANGED <<variant, device, pipeline, heap, cached, nextHandle>>
  /\ UNCHANGED <<genVars, logVars, loadCalls, calls>>
  /\ UNCHANGED <<lName, lType, lExists, lTmp, lPre, loadResult>>

\* return self.pipeline, f"Successfully loaded {model_name}"
LoadReturn ==
  /\ lpc = "return"
  /\ IF pipeline = NoAttr
       THEN LoadExcept(AttributeError)
       ELSE /\ loadResult' = Returned({pipeline} \ {NoneRef},
                                      LoadedMsg(variant, lName))
            /\ lpc' = "idle"
            /\ Traced
  /\ UNCHANGED <<variant, device, sessionVars, genVars, logVars, loadCalls, calls>>
  /\ UNCHANGED <<lName, lType, lExists, lTmp, lPre>>

Load ==
  \/ \E name \in ModelNames, model_type \in ModelTypes, ex \in BOOLEAN :
       LoadStart(name, model_type, ex)
  \/ LoadPath
  \/ LoadExists
  \/ LoadCheck
  \/ LoadDel
  \/ LoadFlush
  \/ LoadConstruct
  \/ LoadAssign
  \/ LoadScheduler
  \/ LoadAttentionSlicing
  \/ LoadVaeSlicing
  \/ LoadXformers
  \/ LoadTo
  \/ LoadSetCurrent
  \/ LoadReturn

(* --------------------------- generate_image ---------------------------- *)

\* generate_image_interface hands its arguments to generate_image as they are
InterfaceArgs(req) ==
  [prompt |-> req.prompt, negative_prompt |-> req.negative_prompt,
   steps |-> req.steps, guidance |-> req.guidance, width |-> req.width,
   height |-> req.height, seed |-> req.seed]

\* NegativeArg that hands the text on as it came
NegativeArg_PassThrough(negative_prompt) == {negative_prompt}

\* negative_prompt if negative_prompt else None     ({} is None)
NegativeArg(negative_prompt) ==
  IF negative_prompt # "" THEN {negative_prompt} ELSE {}

\* the keyword arguments of self.pipeline(...)
EngineArgs(h, req, stream) ==
  [handle |-> h, config |-> heap[h], prompt |-> req.prompt,
   negative_prompt |-> NegativeArg(req.negative_prompt),
   num_inference_steps |-> req.steps, guidance_scale |-> req.guidance,
   width |-> req.width, height |-> req.height, generator |-> stream]

\* the engine call raised in the generate call that just returned
EngineFailed(res) ==
  /\ res.status = "returned"
  /\ res.msg.err = {EngineError("inference")}

\* except Exception as e: return None, f"Error generating image: {str(e)}"
GenExcept(e) ==
  /\ genResult' = Returned({}, GenErrorMsg(variant, e))
  /\ gpc' = "idle"

\* the arguments of the last load call are dropped; its result stays
ForgetLoad ==
  /\ lName' = NoneName /\ lType' = "SD1.5" /\ lExists' = FALSE
  /\ UNCHANGED <<lpc, lTmp, lPre, loadResult, lTrace>>

GenStart(req) ==
  /\ lpc = "idle" /\ gpc = "idle"
  /\ calls < MaxCalls
  /\ gReq' = InterfaceArgs(req)
  /\ gPre' = Snapshot
  /\ gPrev' = IF EngineFailed(genResult)
                THEN [failed |-> TRUE, handle |-> lastCall.handle]
                ELSE NoPrev
  /\ gSeed' = WideInt(0) /\ gStream' = NoStream /\ gImage' = NoImage
  /\ lastCall' = NoCall
  /\ genResult' = NoResult
  /\ gStreams' = 0
  /\ gDone' = Remembered
  /\ gpc' = "check"
  /\ calls' = calls + 1
  /\ ForgetLoad
  /\ UNCHANGED <<variant, device, sessionVars, nextStream, loadCalls>>

\* GenCheck without the early return for self.pipeline is None
GenCheck_NoGuard ==
  /\ gpc = "check"
  /\ IF pipeline = NoAttr
       THEN genResult' = Raised(AttributeError) /\ gpc' = "idle"
       ELSE gpc' = "seed" /\ UNCHANGED genResult
  /\ UNCHANGED <<variant, device, sessionVars, loadVars, logVars, loadCalls, calls>>
  /\ UNCHANGED <<gReq, gSeed, gStream, gImage, gPre, gPrev, gStreams>>

\* if self.pipeline is None: return None, "Please load a model first"
\* (outside the try block)
GenCheck ==
  /\ gpc = "check"
  /\ IF pipeline = NoAttr
       THEN genResult' = Raised(AttributeError) /\ gpc' = "idle"
       ELSE IF pipeline = NoneRef
         THEN genResult' = Returned({}, NoModelMsg(variant)) /\ gpc' = "idle"
         ELSE gpc' = "seed" /\ UNCHANGED genResult
  /\ UNCHANGED <<variant, device, sessionVars, loadVars, logVars, loadCalls, calls>>
  /\ UNCHANGED <<gReq, gSeed, gStream, gImage, gPre, gPrev, gStreams>>

\* if seed == -1: seed = torch.randint(0, 2**32 - 1, (1,)).item()
GenSeed ==
  /\ gpc = "seed"
  /\ IF gReq.seed = WideInt(-1)
       THEN \E r \in RandomDraws : gSeed' = r
       ELSE gSeed' = gReq.seed
  /\ gpc' = "rng"
  /\ UNCHANGED <<variant, device, sessionVars, loadVars, logVars, loadCalls, calls>>
  /\ UNCHANGED <<gReq, gStream, gImage, gPre, gPrev, genResult, gStreams>>

\* GenRng with one stream kept and handed to every engine call
GenRng_SharedStream ==
  /\ gpc = "rng"
  /\ nextStream' = IF nextStream = 0 THEN 1 ELSE nextStream
  /\ gStream' = [id |-> 1, seed |-> gSeed]
  /\ gStreams' = IF nextStream = 0 THEN 1 ELSE 0
  /\ gpc' = "call"
  /\ UNCHANGED <<variant, device, sessionVars, loadVars, loadCalls, calls>>
  /\ UNCHANGED <<lastCall, gDone, gReq, gSeed, gImage, gPre, gPrev, genResult>>

\* generator = torch.Generator(device=self.device).manual_seed(seed)
GenRng ==
  /\ gpc = "rng"
  /\ nextStream' = nextStream + 1
  /\ gStream' = [id |-> nextStream + 1, seed |-> gSeed]
  /\ gStreams' = gStreams + 1
  /\ gpc' = "call"
  /\ UNCHANGED <<variant, device, sessionVars, loadVars, loadCalls, calls>>
  /\ UNCHANGED <<lastCall, gDone, gReq, gSeed, gImage, gPre, gPrev, genResult>>

\* GenCall with an except branch that discards the model
GenCall_DropsModel ==
  /\ gpc = "call"
  /\ IF ~IsHandle(pipeline)
       THEN /\ GenExcept(IF pipeline = NoAttr THEN AttributeError
                                              ELSE TypeError("call"))
            /\ UNCHANGED <<lastCall, gImage, pipeline, heap>>
       ELSE /\ lastCall' = EngineArgs(pipeline, gReq, gStream)
            /\ \/ /\ gImage' = [by |-> pipeline, model |-> heap[pipeline].name,
                                seed |-> gStream.seed]
                  /\ gpc' = "info"
                  /\ UNCHANGED <<genResult, pipeline, heap>>
               \/ /\ GenExcept(EngineError("inference"))
                  /\ pipeline' = NoneRef
                  /\ heap' = <<>>
                  /\ UNCHANGED gImage
  /\ UNCHANGED <<variant, device, current_model, cached, nextHandle>>
  /\ UNCHANGED <<loadVars, loadCalls, calls>>
  /\ UNCHANGED <<nextStream, gDone, gReq, gSeed, gStream, gPre, gPrev, gStreams>>

\* result = self.pipeline(prompt=..., ..., generator=generator)
GenCall ==
  /\ gpc = "call"
  /\ IF ~IsHandle(pipeline)
       THEN /\ GenExcept(IF pipeline = NoAttr THEN AttributeError
                                              ELSE TypeError("call"))
            /\ UNCHANGED <<lastCall, gImage>>
       ELSE /\ lastCall' = EngineArgs(pipeline, gReq, gStream)
            /\ \/ /\ gImage' = [by |-> pipeline, model |-> heap[pipeline].name,
                                seed |-> gStream.seed]
                  /\ gpc' = "info"
                  /\ UNCHANGED genResult
               \/ /\ GenExcept(EngineError("inference"))
                  /\ UNCHANGED gImage
  /\ UNCHANGED <<variant, device, sessionVars, loadVars, loadCalls, calls>>
  /\ UNCHANGED <<nextStream, gDone, gReq, gSeed, gStream, gPre, gPrev, gStreams>>

\* image = result.images[0]; info = f"Generated with seed: {seed}[...]";
\* return image, info
GenInfo ==
  /\ gpc = "info"
  /\ genResult' = Returned({gImage}, GeneratedMsg(variant, gSeed, current_model))
  /\ gpc' = "idle"
  /\ UNCHANGED <<variant, device, sessionVars, loadVars, logVars, loadCalls, calls>>
  /\ UNCHANGED <<gReq, gSeed, gStream, gImage, gPre, gPrev, gStreams>>

Generate ==
  \/ \E req \in Requests : GenStart(req)
  \/ GenCheck
  \/ GenSeed
  \/ GenRng
  \/ GenCall
  \/ GenInfo

Next == Load \/ Generate

Spec == Init /\ [][Next]_vars

TypeOK ==
  /\ pipeline \in {NoneRef, NoAttr} \cup DOMAIN heap
  /\ current_model \in ModelNames
  /\ calls \in 0..MaxCalls

(* ------------------------- reading the results ------------------------- *)

LoadIdle == lpc = "idle" /\ loadResult.status # "none"
GenIdle == gpc = "idle" /\ genResult.status # "none"

\* the last load call returned (None, "Error loading ...") for an engine error
IsLoadFailure(res) ==
  /\ res.status = "returned"
  /\ \E e \in res.msg.err : e.type = "EngineError"

IsNotFound(res) ==
  /\ res.status = "returned"
  /\ res.msg.text \in {"Model not found at", "Checkpoint not found at"}

IsLoaded(res) ==
  /\ res.status = "returned"
  /\ res.msg.text = "Successfully loaded"

IsNoModelLoaded(res) == res = Returned({}, NoModelMsg(variant))

IsImage(res) == res.status = "returned" /\ res.value # {}

(* ------------------------------ C1 ------------------------------------- *)

\* C1: no load call and no generate call lets an exception escape to its
\* caller; every call returns a (value, message) pair.
C1_NoExceptionEscapes ==
  /\ loadResult.status # "raised"
  /\ genResult.status # "raised"

(* ------------------------------ C2 ------------------------------------- *)

\* C2: after a load call failed with an engine error the session is Unloaded:
\* self.pipeline is None, no pipeline object is live, and a generate call made
\* afterwards returns NoModelLoaded without an engine call.
C2_LoadFailureLeavesUnloaded ==
  (lpc = "idle" /\ IsLoadFailure(loadResult)) =>
     /\ pipeline = NoneRef
     /\ heap = <<>>
     /\ GenIdle => (IsNoModelLoaded(genResult) /\ lastCall = NoCall)

(* ------------------------------ C3 ------------------------------------- *)

\* C3: whenever generate can run, a pipeline stored as the session's handle
\* has the Karras multistep sampler, attention and decoder slicing enabled and
\* is placed on the selected device; so is every pipeline the engine is
\* called with.
C3_HandleFullyInitialized ==
  /\ (lpc = "idle" /\ IsHandle(pipeline)) =>
        FullyInitialized(heap[pipeline], device)
  /\ lastCall # NoCall => FullyInitialized(lastCall.config, device)

(* ------------------------------ C4 ------------------------------------- *)

\* C4 (as stated): a load call whose artifact does not exist returns
\* ArtifactNotFound and leaves the session Unloaded, a previously loaded model
\* being released; a generate call made afterwards returns NoModelLoaded.
C4_NotFoundLeavesUnloaded ==
  (lpc = "idle" /\ IsNotFound(loadResult)) =>
     /\ pipeline = NoneRef
     /\ GenIdle => IsNoModelLoaded(genResult)

\* C4 (amended): a load call whose artifact does not exist returns
\* (None, "... not found at <identifier>") and leaves the session as it found
\* it: self.pipeline, the live pipeline objects and the active identifier are
\* those from before the call, and a generate call made afterwards returns
\* NoModelLoaded exactly when self.pipeline was None before the load call.
C4_NotFoundKeepsSession ==
  (lpc = "idle" /\ IsNotFound(loadResult)) =>
     /\ loadResult.value = {}
     /\ Snapshot = lPre
     /\ cached = {}
     /\ GenIdle => (IsNoModelLoaded(genResult) <=> lPre.pipeline = NoneRef)

\* a model was loaded, a load of a missing artifact followed, and the
\* generate call after it still produced an image with the kept model
C4_Witness ==
  /\ lpc = "idle" /\ IsNotFound(loadResult)
  /\ lPre.pipeline \in DOMAIN lPre.heap
  /\ GenIdle /\ IsImage(genResult)
  /\ lastCall.handle = lPre.pipeline

(* ------------------------------ C5 ------------------------------------- *)

\* C5: a load call whose artifact exists and in which no engine step raises
\* returns the handle and ends in Loaded with the active identifier equal to
\* the requested one, from whatever state it started; a following generate
\* call whose engine call succeeds returns an image.
C5_LoadSucceeds ==
  /\ (/\ LoadIdle
      /\ loadResult.status = "returned"
      /\ ~IsNotFound(loadResult)
      /\ \A e \in loadResult.msg.err : e.type \notin {"EngineError", "TypeError"})
     => /\ IsLoaded(loadResult)
        /\ IsHandle(pipeline)
        /\ loadResult.value = {pipeline}
        /\ loadResult.msg.model = {current_model}
  /\ (IsLoaded(loadResult) /\ GenIdle /\ ~EngineFailed(genResult))
     => IsImage(genResult)

(* ------------------------------ C6 ------------------------------------- *)

\* C6: when the engine call of a generate call raises, generate returns
\* (None, "Error generating image: <error text>"), and self.pipeline, the
\* pipeline object and the active identifier are what they were when the call
\* started; the next generate call reaches the engine with that same handle.
C6_GenerationFailureKeepsModel ==
  /\ (gpc = "idle" /\ EngineFailed(genResult)) =>
        /\ genResult = Returned({}, GenErrorMsg(variant, EngineError("inference")))
        /\ Snapshot = gPre
        /\ IsHandle(pipeline)
        /\ lastCall.handle = pipeline
  /\ (gPrev.failed /\ GenIdle) =>
        /\ lastCall # NoCall
        /\ lastCall.handle = gPrev.handle
        /\ lastCall.config = heap[gPrev.handle]

\* a generate call whose engine call raised was followed by a generate call
\* that got an image from the same handle
C6_Witness ==
  /\ gPrev.failed /\ GenIdle /\ IsImage(genResult)
  /\ lastCall.handle = gPrev.handle

(* ------------------------------ C7 ------------------------------------- *)

\* C7: a generate call made before any load call returns
\* (None, "Please load a model first") and does not call the engine, whatever
\* the request.
C7_GenerateBeforeLoad ==
  loadCalls = 0 =>
     /\ gpc \in {"idle", "check"}
     /\ lastCall = NoCall
     /\ nextStream = 0
     /\ GenIdle => IsNoModelLoaded(genResult)

\* generate was called with out-of-range values before any load and returned
C7_Witness ==
  /\ loadCalls = 0 /\ GenIdle
  /\ gReq.steps = 500 /\ gReq.seed = WideInt(42)

(* ------------------------------ C8 ------------------------------------- *)

\* C8: at most one pipeline object is alive or cached on the device at any
\* time; when construction of a new pipeline starts nothing is alive or
\* cached (the old handle was dropped and the device cache flushed before);
\* after a successful load the only live pipeline is the one just loaded.
C8_OneHandleAtATime ==
  /\ Cardinality(DOMAIN heap \cup cached) <= 1
  /\ lpc = "construct" => (heap = <<>> /\ cached = {})
  /\ (lpc = "idle" /\ IsLoaded(loadResult)) =>
        /\ DOMAIN heap = {pipeline}
        /\ loadResult.msg.model = {heap[pipeline].name}

\* two loads succeeded in succession with different identifiers
C8_Witness ==
  /\ lpc = "idle" /\ IsLoaded(loadResult)
  /\ lPre.pipeline \in DOMAIN lPre.heap
  /\ IsHandle(pipeline)
  /\ FullyInitialized(lPre.heap[lPre.pipeline], device)
  /\ lPre.heap[lPre.pipeline].name # heap[pipeline].name
  /\ lPre.pipeline # pipeline

(* ------------------------------ C9 ------------------------------------- *)

\* bounds of the validator: the sliders of app.py (guidance in half units)
MinSteps == 10
MaxSteps == 100
MinGuidance == 2
MaxGuidance == 40
MinSize == 256
MaxSize == 1024
SizeAlignment == 64

InBounds(call) ==
  /\ call.num_inference_steps \in MinSteps..MaxSteps
  /\ call.guidance_scale \in MinGuidance..MaxGuidance
  /\ call.width \in MinSize..MaxSize /\ call.width % SizeAlignment = 0
  /\ call.height \in MinSize..MaxSize /\ call.height % SizeAlignment = 0

\* C9: the values that reach the engine call are within the bounds: steps in
\* [10, 100], guidance in [1, 20], width and height in [256, 1024] and
\* divisible by 64.
C9_EngineArgsInBounds == lastCall # NoCall => InBounds(lastCall)

(* ------------------------------ C10 ------------------------------------ *)

\* C10: the info string of a successful generate call names the resolved seed
\* and the identifier of the pipeline that the engine call used.
C10_ProvenanceNamesSeedAndModel ==
  (GenIdle /\ IsImage(genResult)) =>
     /\ genResult.msg.seed = {lastCall.generator.seed}
     /\ genResult.msg.model = {lastCall.config.name}


(* ------------------------------ C11 ------------------------------------ *)

\* C11 (as stated): every response of generate, with an image or reporting
\* NoModelLoaded or GenerationFailure, has an info message that includes a
\* seed.
C11_EveryInfoNamesSeed ==
  (GenIdle /\ genResult.status = "returned") => genResult.msg.seed # {}

\* C11 (amended): every response of generate that carries an image has an
\* info message that includes the resolved seed, the one the random stream
\* handed to the engine was seeded with; the NoModelLoaded and
\* GenerationFailure responses name no seed.
C11_ImageInfoNamesSeed ==
  (GenIdle /\ genResult.status = "returned") =>
     IF IsImage(genResult)
       THEN /\ genResult.msg.seed = {gSeed}
            /\ lastCall.generator.seed = gSeed
       ELSE genResult.msg.seed = {}

\* an image came back for a request with the seed sentinel, and the info
\* names the drawn seed
C11_Witness ==
  /\ GenIdle /\ IsImage(genResult)
  /\ gReq.seed # gSeed
  /\ genResult.msg.seed = {gSeed}


(* ------------------------------ C12 ------------------------------------ *)

\* the running or last generate call has passed the seed resolution
SeedResolved == gpc = "rng" \/ gStream.id # 0

\* C12: a request seed of -1 is replaced by a drawn seed r with
\* 0 <= r < 2^32 - 1, which is never -1; any other request seed is the
\* resolved seed, unchanged.
C12_SeedResolution ==
  SeedResolved =>
     IF gReq.seed = Wide(-1, 65535)
       THEN /\ WideLeq(Wide(0, 0), gSeed)
            /\ WideLess(gSeed, Wide(65535, 65535))
            /\ gSeed # Wide(-1, 65535)
       ELSE gSeed = gReq.seed

\* the seed sentinel was resolved to the largest value of the range, 2^32 - 2
C12_Witness ==
  /\ SeedResolved
  /\ gReq.seed = Wide(-1, 65535)
  /\ gSeed = Wide(65535, 65534)


(* ------------------------------ C13 ------------------------------------ *)

\* C13: a generate call that reaches the engine has constructed exactly one
\* random stream, seeded with the resolved seed, and that stream is the one
\* passed to the engine; it is a stream no earlier call passed.  The info
\* string of a generate call with an explicit seed names that seed, whatever
\* ran before, so two generate calls that return an image with the same
\* handle, the same request and the same explicit seed name the same seed.
C13_OneSeededStreamPerCall ==
  /\ gStreams <= 1
  /\ lastCall # NoCall =>
        /\ gStreams = 1
        /\ lastCall.generator = gStream
        /\ gStream.seed = gSeed
        /\ gStream.id = nextStream
        /\ gDone.valid => gDone.stream < lastCall.generator.id
  /\ (GenIdle /\ IsImage(genResult) /\ gReq.seed # Wide(-1, 65535))
     => genResult.msg.seed = {gReq.seed}
  /\ (/\ GenIdle /\ IsImage(genResult)
      /\ gDone.valid
      /\ gDone.req = gReq /\ gDone.handle = lastCall.handle
      /\ gReq.seed # Wide(-1, 65535))
     => genResult.msg.seed = gDone.seed

\* two generate calls with the same handle, request and explicit seed both
\* returned an image
C13_Witness ==
  /\ GenIdle /\ IsImage(genResult)
  /\ gDone.valid
  /\ gDone.req = gReq /\ gDone.handle = lastCall.handle
  /\ gReq.seed = Wide(0, 42)
  /\ lastCall.generator.id = 2 /\ gDone.stream = 1


(* ------------------------------ C14 ------------------------------------ *)

\* C14: an empty negative prompt reaches the engine as None, never as the
\* empty string; a non-empty negative prompt reaches the engine unchanged.
C14_NegativePromptNormalized ==
  lastCall # NoCall =>
     /\ "" \notin lastCall.negative_prompt
     /\ gReq.negative_prompt = "" => lastCall.negative_prompt = {}
     /\ gReq.negative_prompt # "" =>
           lastCall.negative_prompt = {gReq.negative_prompt}

\* the engine was called for a request with an empty negative prompt
C14_Witness ==
  /\ lastCall # NoCall
  /\ gReq.negative_prompt = ""
  /\ lastCall.negative_prompt = {}


(* ------------------------------ C15 ------------------------------------ *)

IsConfigStep(step) ==
  step \in {"construct", "scheduler", "attention", "vae", "xformers", "to",
            "current"}

\* the construction and configuration statements of the running / last load
\* call, in the order they completed
ConfigSteps == SelectSeq(lTrace, IsConfigStep)

\* C15 (as stated): every successful load has constructed the pipeline,
\* attached the sampler, enabled attention and decoder slicing, attempted the
\* memory-efficient attention backend, placed the pipeline on the device and
\* only then recorded the identifier, in this order; a failure of the backend
\* does not fail the load.
C15_LoadOrderWithBackend ==
  /\ (lpc = "idle" /\ IsLoaded(loadResult)) =>
        ConfigSteps = <<"construct", "scheduler", "attention", "vae",
                        "xformers", "to", "current">>
  /\ EngineError("xformers") \notin loadResult.msg.err

\* C15 (amended): every successful load has constructed the pipeline,
\* attached the sampler, enabled attention and decoder slicing, placed the
\* pipeline on the device and only then recorded the identifier, in this
\* order; load_checkpoint of the minified app attempts the memory-efficient
\* attention backend between the slicing and the placement, load_model of
\* app.py has no such step.  A failure of the backend never fails a load.
C15_LoadOrder ==
  /\ (lpc = "idle" /\ IsLoaded(loadResult)) =>
        /\ ConfigSteps =
             IF variant = "minified"
               THEN <<"construct", "scheduler", "attention", "vae",
                      "xformers", "to", "current">>
               ELSE <<"construct", "scheduler", "attention", "vae", "to",
                      "current">>
        /\ IsHandle(pipeline)
        /\ heap[pipeline].device = device
        /\ loadResult.msg.model = {current_model}
  /\ EngineError("xformers") \notin loadResult.msg.err

\* a load_checkpoint call succeeded although the backend was not enabled
C15_Witness ==
  /\ lpc = "idle" /\ IsLoaded(loadResult)
  /\ variant = "minified"
  /\ IsHandle(pipeline)
  /\ ~heap[pipeline].xformers
  /\ heap[pipeline].device = device
  /\ current_model = heap[pipeline].name
  /\ Len(ConfigSteps) = 7


(* ------------------- interleaved load and generate --------------------- *)

\* generate_btn.click while the handler of load_btn.click is running: the
\* two handlers share the one generator object and no lock is taken
GenStartDuringLoad(req) ==
  /\ lpc # "idle" /\ gpc = "idle"
  /\ calls < MaxCalls /\ calls < MaxOverlapCalls
  /\ gReq' = InterfaceArgs(req)
  /\ gPre' = Snapshot
  /\ gPrev' = NoPrev
  /\ gSeed' = WideInt(0) /\ gStream' = NoStream /\ gImage' = NoImage
  /\ lastCall' = NoCall
  /\ genResult' = NoResult
  /\ gStreams' = 0
  /\ gDone' = Remembered
  /\ gpc' = "check"
  /\ calls' = calls + 1
  /\ UNCHANGED <<variant, device, sessionVars, loadVars, nextStream, loadCalls>>

\* load_btn.click while the handler of generate_btn.click is running
LoadStartDuringGenerate(name, model_type, ex) ==
  /\ gpc # "idle" /\ lpc = "idle"
  /\ calls < MaxCalls /\ calls < MaxOverlapCalls
  /\ variant = "minified" => model_type = "SD1.5"
  /\ lName' = name /\ lType' = model_type /\ lExists' = ex
  /\ lPre' = Snapshot
  /\ lTmp' = NoneRef
  /\ lTrace' = <<>>
  /\ lpc' = "path"
  /\ loadResult' = NoResult
  /\ loadCalls' = loadCalls + 1
  /\ calls' = calls + 1
  /\ UNCHANGED <<variant, device, sessionVars, genVars, logVars>>

Interleave ==
  \/ \E req \in Requests : GenStartDuringLoad(req)
  \/ \E name \in ModelNames, model_type \in ModelTypes, ex \in BOOLEAN :
       LoadStartDuringGenerate(name, model_type, ex)

NextInterleaved == Next \/ Interleave

SpecInterleaved == Init /\ [][NextInterleaved]_vars

(* ------------------------------ C16 ------------------------------------ *)

\* C16: while a load call is running, a step of generate never lets an
\* exception escape, never calls the engine with a pipeline that lacks the
\* sampler, the slicing flags or the device placement, and never returns an
\* info string naming an identifier other than that of the pipeline that
\* produced the image.
C16_InterleavedGenerateSafe ==
  [][(lpc # "idle" /\ gpc # "idle" /\ gpc' # gpc) =>
        /\ genResult'.status # "raised"
        /\ lastCall' # NoCall => FullyInitialized(lastCall'.config, device)
        /\ (genResult'.status = "returned" /\ genResult'.value # {}) =>
              genResult'.msg.model \subseteq {lastCall'.config.name}]_vars

====
